---- MODULE Spec2Model ----
(***************************************************************************)
(* Incremental taxonomy synchronisation (SoftwareMap/Maintenance.py):      *)
(* the two sync modes of class Tasks (update_database, add_new_software),  *)
(* the batch merge writer (merge_data), the hierarchy crawler              *)
(* (_create_superclass_tree, add_parents, get_superclasses) and the legacy *)
(* crawler of to_be_removed/create_class_hierarchy.py, run against a       *)
(* remote ontology service and a property graph store.                     *)
(*                                                                         *)
(* Not modelled: the `created` timestamps (set with the label, on creation *)
(* only), logging, and the text of the SPARQL queries (a query is modelled *)
(* by what it selects).                                                    *)
(***************************************************************************)
EXTENDS Integers, Sequences, FiniteSets, Bags, TLC

\* ---------------------------------------------------------------- bounds
\* Sync runs started in one behaviour.
MaxRuns == 3
\* HTTP 429 answers the remote gives in a row to one superclass query.
Max429 == 2
\* Rows per merge batch (merge_data's batch_size, 500 in the source, scaled).
BatchSize == 2
\* Depth of the crawler's recursion the model allows (never reached).
MaxDepth == 6
\* Length of the lists merge_data is given when it is checked on its own.
MaxData == 5
\* Largest batch_size merge_data is given when it is checked on its own.
MaxBatchSize == 3

\* ------------------------------------------------------- the remote's data
Root == "Q7397"
ClassIds == {Root, "QA", "QB", "QX"}

\* A Wikidata entity URI, as the list of its "/"-separated parts.
Uri(q) == <<"http:", "", "www.wikidata.org", "entity", q>>

\* class_uri.split("/")[-1]
LastSegment(uri) == uri[Len(uri)]

\* The remote's direct-superclass statements (P279) a snapshot may hold:
\* the root always has a superclass outside its own subtree.
FixedSup == {<<Root, "QX">>}
CandSup == {<<"QA", Root>>, <<"QA", "QB">>, <<"QB", "QA">>}
\* The remote's instance-of statements (P31) a snapshot may hold.
CandInst == {<<"Qs1", "QA">>, <<"Qs1", "QB">>, <<"Qs2", Root>>}

VARIABLES
  sup,                \* remote: the P279 statements <<class, superclass>>
  inst,               \* remote: the P31 statements <<item, type>>
  ver,                \* remote: the version of the labels (labels may change between runs)
  nodes,              \* store: nodes [kind, uri, label]
  edges,              \* store: bag of relationships [rel, src, dst]
  pc,                 \* the process's position
  mode,               \* the entry point running: "none", "bulk", "rec", "crawl", "legacy"
  current_software,   \* update_database / add_new_software: Software uris read at the start
  current_subclasses, \* update_database: Class uris read at the start
  subclass_nodes,     \* update_database: the filtered subclass rows
  software_nodes,     \* update_database: the filtered instance rows
  bi,                 \* merge_data: batches committed so far
  batch_size,         \* merge_data: its batch_size argument
  in_flight,          \* session: the statements run and not yet synced, oldest first
  committed,          \* history: the batches of this run the store has acknowledged, in order
  wikidata_software,  \* add_new_software: the instance rows
  si,                 \* add_new_software: index of the row being handled
  visited,            \* the crawler's visited set
  stack,              \* the crawler's call stack, innermost frame last
  attempts,           \* get_superclasses: the requests the remote got in the current call
  sleeps,             \* get_superclasses: backoff waits of the current call
  left429,            \* remote: 429 answers it may still give to the query being retried
  runs,               \* runs started
  outcome,            \* how the last run ended
  expanded,           \* history: bag of the class uris get_superclasses was called for in this run
  start,              \* history: the store, the label version (and a lone crawl's inputs) at the start of the current run
  prev                \* history: the run before the current one (its mode, outcome, start)

storeVars == <<nodes, edges>>
bulkVars == <<current_subclasses, subclass_nodes, software_nodes, bi, in_flight, committed>>
recVars == <<wikidata_software, si>>
crawlVars == <<visited, stack, attempts, sleeps, expanded>>
histVars == <<runs, start, prev>>
vars == <<sup, inst, ver, nodes, edges, pc, mode, current_software, current_subclasses,
          subclass_nodes, software_nodes, bi, batch_size, in_flight, committed,
          wikidata_software, si, visited, stack,
          attempts, sleeps, left429, runs, outcome, expanded, start, prev>>

\* The label the remote gives entity q in the current snapshot.
Label(q) == <<q, ver>>

\* ?c wdt:P279* wd:Q7397 : the classes below the root, the root included.
RECURSIVE Below(_, _)
Below(S, n) ==
  IF n = 0 THEN S
  ELSE Below(S \cup {e[1] : e \in {f \in sup : f[2] \in S}}, n - 1)

Subtree == Below({Root}, Cardinality(ClassIds))

\* The sequences that list the set S once each: the orders a result may come in.
Perms(S) ==
  {s \in [1..Cardinality(S) -> S] : \A i, j \in 1..Cardinality(S) : s[i] = s[j] => i = j}

Row(c, p) ==
  [child_uri |-> Uri(c), child_label |-> Label(c),
   parent_uri |-> Uri(p), parent_label |-> Label(p)]

\* get_software_subclasses: the rows of the all-subclasses query.
SubclassRows ==
  {Row(e[1], e[2]) : e \in {f \in sup : f[1] \in Subtree /\ f[2] \in Subtree}}

\* get_software_instances: the rows of the all-instances query.
InstanceRows == {Row(e[1], e[2]) : e \in {f \in inst : f[2] \in Subtree}}

\* ------------------------------------------------------------- the store
NoLabel == <<>>

Node(kind, uri, label) == [kind |-> kind, uri |-> uri, label |-> label]

\* MATCH (n:kind {uri: uri})
Match(ns, kind, uri) == {n \in ns : n.kind = kind /\ n.uri = uri}

\* "MATCH (n:kind) RETURN n.uri", as the set the caller builds
KnownUris(kind) == {n.uri : n \in {m \in nodes : m.kind = kind}}

\* MERGE (n:kind {uri: uri}) ON CREATE SET n.label = label
MergeNode(ns, kind, uri, label) ==
  IF Match(ns, kind, uri) # {} THEN ns ELSE ns \cup {Node(kind, uri, label)}

Edge(rel, src, dst) == [rel |-> rel, src |-> src, dst |-> dst]

\* MERGE (a)-[:rel]->(b), for every matched pair
MergeEdges(es, rel, srcs, dsts) ==
  es (+) SetToBag({e \in {Edge(rel, a, b) : a \in srcs, b \in dsts} : ~BagIn(e, es)})

\* CREATE (a)-[:rel]->(b), for every matched pair
CreateEdges(es, rel, srcs, dsts) ==
  es (+) SetToBag({Edge(rel, a, b) : a \in srcs, b \in dsts})

Store(ns, es) == [nodes |-> ns, edges |-> es]

\* One row of merge_data's statement.
MergeRow(st, label, relationship, data) ==
  LET n1 == MergeNode(st.nodes, label, data.child_uri, data.child_label)
      n2 == MergeNode(n1, "Class", data.parent_uri, data.parent_label)
  IN  Store(n2, MergeEdges(st.edges, relationship,
                           Match(n2, label, data.child_uri),
                           Match(n2, "Class", data.parent_uri)))

\* UNWIND $batch AS data ... : the rows of a batch, in order.
RECURSIVE MergeBatch(_, _, _, _)
MergeBatch(st, label, relationship, batch) ==
  IF batch = <<>> THEN st
  ELSE MergeBatch(MergeRow(st, label, relationship, Head(batch)),
                  label, relationship, Tail(batch))

Min(a, b) == IF a < b THEN a ELSE b

\* generate_batches: the i-th slice (from 0) data[i*b : i*b + b]
Batch(data, i, b) == SubSeq(data, i * b + 1, Min(Len(data), i * b + b))

NumBatchesFloor(data, b) == Len(data) \div b

\* range(0, len(data), batch_size) has this many elements
NumBatches(data, b) == (Len(data) + b - 1) \div b

\* session.run(statement, batch=batch): a statement the session holds.
Statement(label, relationship, batch) ==
  [label |-> label, relationship |-> relationship, batch |-> batch]

\* The store applies statements in the order they were run.
RECURSIVE ApplyPending(_, _)
ApplyPending(st, pending) ==
  IF pending = <<>> THEN st
  ELSE ApplyPending(MergeBatch(st, Head(pending).label, Head(pending).relationship,
                               Head(pending).batch),
                    Tail(pending))

SyncLazy(st, pending) == [store |-> st, pending |-> pending]

\* session.sync(): blocks until the store has applied every statement the
\* session holds; none is left pending.
Sync(st, pending) == [store |-> ApplyPending(st, pending), pending |-> <<>>]

FilterAll(rows, known) == rows

FilterByParent(rows, known) == SelectSeq(rows, LAMBDA r : r.parent_uri \notin known)

\* [node for node in rows if node["child_uri"] not in known]
Filter(rows, known) == SelectSeq(rows, LAMBDA r : r.child_uri \notin known)

\* ------------------------------------------------------------ the process
\* The process holds nothing between runs.
NoLocals ==
  /\ current_software' = {}
  /\ current_subclasses' = {}
  /\ subclass_nodes' = <<>>
  /\ software_nodes' = <<>>
  /\ bi' = 0
  /\ in_flight' = <<>>
  /\ committed' = <<>>
  /\ wikidata_software' = <<>>
  /\ si' = 0
  /\ visited' = {}
  /\ stack' = <<>>
  /\ sleeps' = 0
  /\ attempts' = <<>>

\* A run ends: normally ("complete"), by an exception that reaches the caller
\* ("error429", "errorfail") or by the process being killed ("interrupted").
EndRun(how) ==
  /\ pc' = "idle"
  /\ outcome' = how
  /\ NoLocals

\* A run starts: the history of the run before it is kept.
BeginRun(m) ==
  /\ pc = "idle"
  /\ runs < MaxRuns
  /\ runs' = runs + 1
  /\ mode' = m
  /\ attempts' = <<>>
  /\ expanded' = EmptyBag
  /\ start' = [nodes |-> nodes, edges |-> edges, ver |-> ver, visited |-> {}, class |-> <<>>]
  /\ prev' = [mode |-> mode, outcome |-> outcome, start |-> start]

EmptyStart == [nodes |-> {}, edges |-> EmptyBag, ver |-> 0, visited |-> {}, class |-> <<>>]

Init ==
  /\ sup \in {FixedSup \cup S : S \in SUBSET CandSup}
  /\ inst \in SUBSET CandInst
  /\ ver = 1
  /\ nodes = {}
  /\ edges = EmptyBag
  /\ pc = "idle"
  /\ mode = "none"
  /\ current_software = {}
  /\ current_subclasses = {}
  /\ subclass_nodes = <<>>
  /\ software_nodes = <<>>
  /\ bi = 0
  /\ batch_size = BatchSize
  /\ in_flight = <<>>
  /\ committed = <<>>
  /\ wikidata_software = <<>>
  /\ si = 0
  /\ visited = {}
  /\ stack = <<>>
  /\ attempts = <<>>
  /\ sleeps = 0
  /\ left429 = Max429
  /\ runs = 0
  /\ outcome = "none"
  /\ expanded = EmptyBag
  /\ start = EmptyStart
  /\ prev = [mode |-> "none", outcome |-> "none", start |-> EmptyStart]

\* The remote's labels change between two runs (every entity is renamed).
Relabel ==
  /\ pc = "idle"
  /\ runs < MaxRuns
  /\ ver = 1
  /\ ver' = ver + 1
  /\ UNCHANGED <<batch_size, sup, inst, nodes, edges, pc, mode, current_software, bulkVars, recVars,
                 crawlVars, left429, runs, outcome, start, prev>>

\* The process is killed in the middle of a run: of the statements the session
\* holds, the store has applied some first ones.
Interrupt ==
  /\ pc # "idle"
  /\ mode # "crawl"
  /\ EndRun("interrupted")
  /\ left429' = Max429
  /\ \E k \in 0..Len(in_flight) :
       LET st == ApplyPending(Store(nodes, edges), SubSeq(in_flight, 1, k))
       IN  /\ nodes' = st.nodes
           /\ edges' = st.edges
  /\ UNCHANGED <<batch_size, sup, inst, ver, mode, runs, expanded, start, prev>>

\* update_database, lines 97-110: the known uris are read from the store.
StartUpdateDatabase ==
  /\ BeginRun("bulk")
  /\ pc' = "ud_subclasses"
  /\ current_software' = KnownUris("Software")
  /\ current_subclasses' = KnownUris("Class")
  /\ outcome' = "running"
  /\ UNCHANGED <<batch_size, sup, inst, ver, nodes, edges, subclass_nodes, software_nodes, bi,
                 in_flight, committed,
                 recVars, visited, stack, sleeps, left429>>

\* update_database, lines 114-116: the all-subclasses query, then the filter.
\* _sparql_results is called with no handler: an HTTP error or a decode
\* failure leaves update_database.
UdFetchSubclasses ==
  /\ pc = "ud_subclasses"
  /\ \/ /\ \E rows \in Perms(SubclassRows) :
             subclass_nodes' = Filter(rows, current_subclasses)
        /\ pc' = "ud_instances"
        /\ UNCHANGED <<current_software, current_subclasses, software_nodes, bi, in_flight,
                       committed, recVars,
                       crawlVars, left429, outcome>>
     \/ /\ EndRun("error429")
        /\ UNCHANGED <<left429, expanded>>
     \/ /\ EndRun("errorfail")
        /\ UNCHANGED <<left429, expanded>>
  /\ UNCHANGED <<batch_size, sup, inst, ver, nodes, edges, mode, runs, start, prev>>

\* update_database, lines 121-123: the all-instances query, then the filter.
UdFetchInstances ==
  /\ pc = "ud_instances"
  /\ \/ /\ \E rows \in Perms(InstanceRows) :
             software_nodes' = Filter(rows, current_software)
        /\ pc' = "ud_merge_class"
        /\ UNCHANGED <<current_software, current_subclasses, subclass_nodes, bi, in_flight,
                       committed, recVars,
                       crawlVars, left429, outcome>>
     \/ /\ EndRun("error429")
        /\ UNCHANGED <<left429, expanded>>
     \/ /\ EndRun("errorfail")
        /\ UNCHANGED <<left429, expanded>>
  /\ UNCHANGED <<batch_size, sup, inst, ver, nodes, edges, mode, runs, start, prev>>

\* merge_data, lines 77-87: the next batch of generate_batches is run.
SessionRun(data, label, relationship) ==
  /\ bi < NumBatches(data, batch_size)
  /\ in_flight' = Append(in_flight, Statement(label, relationship, Batch(data, bi, batch_size)))
  /\ UNCHANGED <<nodes, edges, bi, committed>>

\* merge_data, line 89: session.sync() returns, and the loop goes on.
SessionSync ==
  /\ LET r == Sync(Store(nodes, edges), in_flight)
     IN  /\ nodes' = r.store.nodes
         /\ edges' = r.store.edges
         /\ in_flight' = r.pending
         /\ committed' = committed \o SubSeq(in_flight, 1, Len(in_flight) - Len(r.pending))
  /\ bi' = bi + 1

\* update_database, line 126: merge_data(subclass_nodes, "Class", "SUBCLASS")
UdMergeClassRun ==
  /\ pc = "ud_merge_class"
  /\ SessionRun(subclass_nodes, "Class", "SUBCLASS")
  /\ pc' = "ud_merge_class_sync"
  /\ UNCHANGED <<batch_size, sup, inst, ver, mode, current_software, current_subclasses,
                 subclass_nodes, software_nodes, recVars, crawlVars, left429, outcome,
                 histVars>>

UdMergeClassSync ==
  /\ pc = "ud_merge_class_sync"
  /\ SessionSync
  /\ pc' = "ud_merge_class"
  /\ UNCHANGED <<batch_size, sup, inst, ver, mode, current_software, current_subclasses,
                 subclass_nodes, software_nodes, recVars, crawlVars, left429, outcome,
                 histVars>>

\* merge_data returns for the classes, line 90
UdMergeClassDone ==
  /\ pc = "ud_merge_class"
  /\ bi >= NumBatches(subclass_nodes, batch_size)
  /\ pc' = "ud_merge_software"
  /\ bi' = 0
  /\ UNCHANGED <<batch_size, sup, inst, ver, nodes, edges, mode, current_software,
                 current_subclasses, subclass_nodes, software_nodes, in_flight, committed,
                 recVars, crawlVars, left429, outcome, histVars>>

\* update_database, line 127: merge_data(software_nodes, "Software", "INSTANCE")
UdMergeSoftwareRun ==
  /\ pc = "ud_merge_software"
  /\ SessionRun(software_nodes, "Software", "INSTANCE")
  /\ pc' = "ud_merge_software_sync"
  /\ UNCHANGED <<batch_size, sup, inst, ver, mode, current_software, current_subclasses,
                 subclass_nodes, software_nodes, recVars, crawlVars, left429, outcome,
                 histVars>>

UdMergeSoftwareSync ==
  /\ pc = "ud_merge_software_sync"
  /\ SessionSync
  /\ pc' = "ud_merge_software"
  /\ UNCHANGED <<batch_size, sup, inst, ver, mode, current_software, current_subclasses,
                 subclass_nodes, software_nodes, recVars, crawlVars, left429, outcome,
                 histVars>>

\* merge_data returns for the software, and update_database with it
UdMergeSoftwareDone ==
  /\ pc = "ud_merge_software"
  /\ bi >= NumBatches(software_nodes, batch_size)
  /\ EndRun("complete")
  /\ UNCHANGED <<batch_size, sup, inst, ver, nodes, edges, mode, left429, expanded, histVars>>

\* merge_data, lines 76-90, for both calls of update_database
MergeData ==
  \/ UdMergeClassRun
  \/ UdMergeClassSync
  \/ UdMergeClassDone
  \/ UdMergeSoftwareRun
  \/ UdMergeSoftwareSync
  \/ UdMergeSoftwareDone

UpdateDatabase ==
  \/ StartUpdateDatabase
  \/ UdFetchSubclasses
  \/ UdFetchInstances
  \/ MergeData

\* ------------------------------------------------------ the hierarchy crawler
\* The query get_superclasses builds for a class uri (lines 191-198).
Query(class_uri) == [select |-> "superclasses", of |-> LastSegment(class_uri)]

BindingsUnbounded(q) ==
  {[class |-> [value |-> Uri(e[2])], classLabel |-> [value |-> Label(e[2])]] :
     e \in {f \in sup : f[1] = q.of}}

\* The bindings the remote answers a superclass query with: the direct
\* superclasses of q that are below the root.
Bindings(q) ==
  {[class |-> [value |-> Uri(e[2])], classLabel |-> [value |-> Label(e[2])]] :
     e \in {f \in sup : f[1] = q.of /\ f[2] \in Subtree}}

\* get_superclasses, lines 212-214: the projection of the bindings
Project(bindings) ==
  [k \in 1..Len(bindings) |->
     [uri |-> bindings[k].class.value, label |-> bindings[k].classLabel.value]]

\* A frame of _create_superclass_tree: its class_, its parents, the index of
\* the parent the loop of line 248 is at, and the statement it is at.
Frame(class_) == [class_ |-> class_, parents |-> <<>>, i |-> 0, at |-> "query"]

Top == stack[Len(stack)]

SetTop(f) == [stack EXCEPT ![Len(stack)] = f]

\* An exception leaves get_superclasses: no caller catches it, every frame
\* of the crawl is left and the run ends. (A lone crawl keeps its state, for
\* its caller to look at.)
Raise(how, log) ==
  IF mode = "crawl"
  THEN /\ pc' = "raised"
       /\ outcome' = how
       /\ attempts' = log
       /\ UNCHANGED <<current_software, bulkVars, recVars, visited, stack, sleeps>>
  ELSE EndRun(how)

\* What the remote may answer a superclass query with: the bindings in any
\* order, HTTP 429 (while it is rate limiting), another HTTP error, or a body
\* that is not JSON.
Answers(q) ==
  {[kind |-> "ok", code |-> 200, rows |-> b] : b \in Perms(Bindings(q))}
    \cup (IF left429 > 0 THEN {[kind |-> "http", code |-> 429, rows |-> <<>>]} ELSE {})
    \cup {[kind |-> "http", code |-> 500, rows |-> <<>>],
          [kind |-> "decode", code |-> 200, rows |-> <<>>]}

RetryableNever(a) == FALSE

RetryableAnyHttp(a) == a.kind = "http"

\* lines 204-205: except HTTPError as e: if e.code == 429
Retryable(a) == a.kind = "http" /\ a.code = 429

\* get_superclasses, lines 200-214: one attempt of the retry loop.
GetSuperclassesAttempt ==
  /\ pc = "crawl"
  /\ Top.at = "query"
  /\ expanded' = IF attempts = <<>> THEN expanded (+) SetToBag({Top.class_.uri}) ELSE expanded
  /\ \E a \in Answers(Query(Top.class_.uri)) :
       LET log == Append(attempts, [query |-> Query(Top.class_.uri), answer |-> a]) IN
       IF a.kind = "ok"
       THEN /\ stack' = SetTop([Top EXCEPT !.parents = Project(a.rows), !.at = "tx"])
            /\ attempts' = log
            /\ left429' = Max429
            /\ UNCHANGED <<pc, current_software, bulkVars, recVars, visited, sleeps, outcome>>
       ELSE IF Retryable(a)
       THEN /\ sleeps' = sleeps + 1
            /\ attempts' = log
            /\ left429' = left429 - 1
            /\ UNCHANGED <<pc, current_software, bulkVars, recVars, visited, stack, outcome>>
       ELSE /\ Raise(IF a.code = 429 THEN "error429" ELSE "errorfail", log)
            /\ left429' = Max429
  /\ UNCHANGED <<batch_size, sup, inst, ver, nodes, edges, mode, histVars>>

\* add_parents, lines 226-235: one parent's statement.
AddParent(st, class_, parent) ==
  LET n1 == MergeNode(st.nodes, "Class", class_.uri, class_.label)
      n2 == MergeNode(n1, "Class", parent.uri, parent.label)
  IN  Store(n2, MergeEdges(st.edges, "SUBCLASS",
                           Match(n2, "Class", class_.uri),
                           Match(n2, "Class", parent.uri)))

AddParentsFirst(st, class_, parents) ==
  IF parents = <<>> THEN st ELSE AddParent(st, class_, Head(parents))

RECURSIVE AddParents(_, _, _)
AddParents(st, class_, parents) ==
  IF parents = <<>> THEN st
  ELSE AddParents(AddParent(st, class_, Head(parents)), class_, Tail(parents))

\* _create_superclass_tree, line 247: session.write_transaction(add_parents, ...)
AddParentsTx ==
  /\ pc = "crawl"
  /\ mode # "legacy"
  /\ Top.at = "tx"
  /\ LET st == AddParents(Store(nodes, edges), Top.class_, Top.parents)
     IN  /\ nodes' = st.nodes
         /\ edges' = st.edges
  /\ stack' = SetTop([Top EXCEPT !.at = "loop", !.i = 1])
  /\ attempts' = <<>>
  /\ sleeps' = 0
  /\ UNCHANGED <<batch_size, sup, inst, ver, pc, mode, current_software, bulkVars, recVars, visited,
                 left429, outcome, expanded, histVars>>

IsVisitedNever(uri, seen) == FALSE

IsVisitedAlways(uri, seen) == TRUE

\* line 249: parent["uri"] not in visited
IsVisited(uri, seen) == uri \in seen

\* lines 249-251: the parent is marked visited and expanded.
CrawlRecurse ==
  /\ pc = "crawl"
  /\ Top.at = "loop"
  /\ Top.i <= Len(Top.parents)
  /\ ~IsVisited(Top.parents[Top.i].uri, visited)
  /\ Len(stack) < MaxDepth
  /\ visited' = visited \cup {Top.parents[Top.i].uri}
  /\ stack' = Append(SetTop([Top EXCEPT !.i = @ + 1]), Frame(Top.parents[Top.i]))
  /\ UNCHANGED <<batch_size, sup, inst, ver, nodes, edges, pc, mode, current_software, bulkVars, recVars,
                 attempts, sleeps, left429, outcome, expanded, histVars>>

\* lines 252-253: the parent is skipped.
CrawlSkip ==
  /\ pc = "crawl"
  /\ Top.at = "loop"
  /\ Top.i <= Len(Top.parents)
  /\ IsVisited(Top.parents[Top.i].uri, visited)
  /\ stack' = SetTop([Top EXCEPT !.i = @ + 1])
  /\ UNCHANGED <<batch_size, sup, inst, ver, nodes, edges, pc, mode, current_software, bulkVars, recVars,
                 visited, attempts, sleeps, left429, outcome, expanded, histVars>>

\* Where the outermost _create_superclass_tree returns to.
AfterCrawl ==
  CASE mode = "rec" -> "ans_merge"
    [] mode = "legacy" -> "cch_next"
    [] OTHER -> "returned"

\* The loop of line 248 ends and _create_superclass_tree returns.
CrawlReturn ==
  /\ pc = "crawl"
  /\ Top.at = "loop"
  /\ Top.i > Len(Top.parents)
  /\ stack' = SubSeq(stack, 1, Len(stack) - 1)
  /\ pc' = IF Len(stack) = 1 THEN AfterCrawl ELSE pc
  /\ UNCHANGED <<batch_size, sup, inst, ver, nodes, edges, mode, current_software, bulkVars, recVars,
                 visited, attempts, sleeps, left429, outcome, expanded, histVars>>

CrawlSteps == GetSuperclassesAttempt \/ CrawlRecurse \/ CrawlSkip \/ CrawlReturn

Crawl == CrawlSteps \/ AddParentsTx

\* ------------------------------------------------------------ recursive mode
\* add_new_software, lines 134-140
StartAddNewSoftware ==
  /\ BeginRun("rec")
  /\ pc' = "ans_instances"
  /\ current_software' = KnownUris("Software")
  /\ outcome' = "running"
  /\ UNCHANGED <<batch_size, sup, inst, ver, nodes, edges, bulkVars, recVars, visited, stack, sleeps,
                 left429>>

\* add_new_software, lines 145-150: the all-instances query, no handler.
AnsFetchInstances ==
  /\ pc = "ans_instances"
  /\ \/ /\ wikidata_software' \in Perms(InstanceRows)
        /\ pc' = "ans_subclasses"
        /\ UNCHANGED <<current_software, bulkVars, si, crawlVars, left429, outcome>>
     \/ /\ EndRun("error429")
        /\ UNCHANGED <<left429, expanded>>
     \/ /\ EndRun("errorfail")
        /\ UNCHANGED <<left429, expanded>>
  /\ UNCHANGED <<batch_size, sup, inst, ver, nodes, edges, mode, histVars>>

\* add_new_software, lines 155-164: the all-subclasses query (its result is
\* not used), no handler; then visited = set().
AnsFetchSubclasses ==
  /\ pc = "ans_subclasses"
  /\ \/ /\ pc' = "ans_loop"
        /\ si' = 1
        /\ visited' = {}
        /\ UNCHANGED <<current_software, bulkVars, wikidata_software, stack, attempts, sleeps,
                       expanded, left429, outcome>>
     \/ /\ EndRun("error429")
        /\ UNCHANGED <<left429, expanded>>
     \/ /\ EndRun("errorfail")
        /\ UNCHANGED <<left429, expanded>>
  /\ UNCHANGED <<batch_size, sup, inst, ver, nodes, edges, mode, histVars>>

IsNewAlways(software, known) == TRUE

\* line 168: software["item"]["value"] not in current_software
IsNew(software, known) == software.child_uri \notin known

\* lines 167-168: a row whose item is known is passed over.
AnsSkip ==
  /\ pc = "ans_loop"
  /\ si <= Len(wikidata_software)
  /\ ~IsNew(wikidata_software[si], current_software)
  /\ si' = si + 1
  /\ UNCHANGED <<batch_size, sup, inst, ver, nodes, edges, pc, mode, current_software, bulkVars,
                 wikidata_software, crawlVars, left429, outcome, histVars>>

\* lines 168-175: the crawl is started from the row's type.
AnsCrawl ==
  /\ pc = "ans_loop"
  /\ si <= Len(wikidata_software)
  /\ IsNew(wikidata_software[si], current_software)
  /\ stack' = <<Frame([uri |-> wikidata_software[si].parent_uri,
                       label |-> wikidata_software[si].parent_label])>>
  /\ pc' = "crawl"
  /\ UNCHANGED <<batch_size, sup, inst, ver, nodes, edges, mode, current_software, bulkVars, recVars,
                 visited, attempts, sleeps, left429, outcome, expanded, histVars>>

\* lines 177-182: MATCH (super:Class {uri}) MERGE (s:Software {uri, label})
\* CREATE (s)-[:INSTANCE]->(super). Without a matching super nothing is written.
MergeSoftware(st, software) ==
  LET supers == Match(st.nodes, "Class", software.parent_uri)
      s == Node("Software", software.child_uri, software.child_label)
  IN  IF supers = {} THEN st
      ELSE Store(st.nodes \cup {s}, CreateEdges(st.edges, "INSTANCE", {s}, supers))

AnsMergeSoftware ==
  /\ pc = "ans_merge"
  /\ LET st == MergeSoftware(Store(nodes, edges), wikidata_software[si])
     IN  /\ nodes' = st.nodes
         /\ edges' = st.edges
  /\ si' = si + 1
  /\ pc' = "ans_loop"
  /\ UNCHANGED <<batch_size, sup, inst, ver, mode, current_software, bulkVars, wikidata_software,
                 crawlVars, left429, outcome, histVars>>

\* the loop of line 167 ends and add_new_software returns
AnsDone ==
  /\ pc = "ans_loop"
  /\ si > Len(wikidata_software)
  /\ EndRun("complete")
  /\ UNCHANGED <<batch_size, sup, inst, ver, nodes, edges, mode, left429, expanded, histVars>>

AddNewSoftware ==
  \/ StartAddNewSoftware
  \/ AnsFetchInstances
  \/ AnsFetchSubclasses
  \/ AnsSkip
  \/ AnsCrawl
  \/ AnsMergeSoftware
  \/ AnsDone

\* ------------------------- to_be_removed/create_class_hierarchy.py (legacy)
\* items_by_type.keys(): the types of the data file, in the order they first appear.
RECURSIVE KeysFrom(_, _)
KeysFrom(data, seen) ==
  IF data = <<>> THEN <<>>
  ELSE IF Head(data).parent_uri \in seen THEN KeysFrom(Tail(data), seen)
  ELSE <<Head(data).parent_uri>> \o KeysFrom(Tail(data), seen \cup {Head(data).parent_uri})

Keys(data) == KeysFrom(data, {})

RECURSIVE SumCopies(_, _)
SumCopies(S, es) ==
  IF S = {} THEN 0
  ELSE LET e == CHOOSE x \in S : TRUE IN CopiesIn(e, es) + SumCopies(S \ {e}, es)

\* SET n.label = label, for the matched nodes n: their relationships stay theirs.
SetLabel(st, kind, uri, label) ==
  LET Ren(n) == IF n.kind = kind /\ n.uri = uri THEN Node(kind, uri, label) ELSE n
      RenEdge(e) == Edge(e.rel, Ren(e.src), Ren(e.dst))
      old == BagToSet(st.edges)
  IN  Store({Ren(n) : n \in st.nodes},
            [e2 \in {RenEdge(e) : e \in old} |->
               SumCopies({e \in old : RenEdge(e) = e2}, st.edges)])

\* add_parents of the legacy script, lines 46-52: one parent's statement.
\* Neither MERGE sets a label; the super's label is SET whether or not the
\* node was there.
LegacyAddParent(st, uri, parent) ==
  LET n1 == MergeNode(st.nodes, "Class", uri, NoLabel)
      n2 == MergeNode(n1, "Class", parent.uri, NoLabel)
      es == MergeEdges(st.edges, "SUBCLASS", Match(n2, "Class", uri),
                       Match(n2, "Class", parent.uri))
  IN  SetLabel(Store(n2, es), "Class", parent.uri, parent.label)

RECURSIVE LegacyAddParents(_, _, _)
LegacyAddParents(st, uri, parents) ==
  IF parents = <<>> THEN st
  ELSE LegacyAddParents(LegacyAddParent(st, uri, Head(parents)), uri, Tail(parents))

\* main, lines 73-83: the data file is read, visited = set()
StartCreateClassHierarchy ==
  /\ BeginRun("legacy")
  /\ pc' = "cch_loop"
  /\ wikidata_software' \in Perms(InstanceRows)
  /\ si' = 1
  /\ outcome' = "running"
  /\ UNCHANGED <<batch_size, sup, inst, ver, nodes, edges, current_software, bulkVars, visited, stack,
                 sleeps, left429>>

\* main, lines 84-86: create_superclass_tree(base_class, visited)
CchCrawl ==
  /\ pc = "cch_loop"
  /\ si <= Len(Keys(wikidata_software))
  /\ stack' = <<Frame([uri |-> Keys(wikidata_software)[si], label |-> NoLabel])>>
  /\ pc' = "crawl"
  /\ UNCHANGED <<batch_size, sup, inst, ver, nodes, edges, mode, current_software, bulkVars, recVars,
                 visited, attempts, sleeps, left429, outcome, expanded, histVars>>

\* _create_superclass_tree of the legacy script, line 63
LegacyAddParentsTx ==
  /\ pc = "crawl"
  /\ mode = "legacy"
  /\ Top.at = "tx"
  /\ LET st == LegacyAddParents(Store(nodes, edges), Top.class_.uri, Top.parents)
     IN  /\ nodes' = st.nodes
         /\ edges' = st.edges
  /\ stack' = SetTop([Top EXCEPT !.at = "loop", !.i = 1])
  /\ attempts' = <<>>
  /\ sleeps' = 0
  /\ UNCHANGED <<batch_size, sup, inst, ver, pc, mode, current_software, bulkVars, recVars, visited,
                 left429, outcome, expanded, histVars>>

\* the crawl of a base class has returned: the next one
CchNext ==
  /\ pc = "cch_next"
  /\ si' = si + 1
  /\ pc' = "cch_loop"
  /\ UNCHANGED <<batch_size, sup, inst, ver, nodes, edges, mode, current_software, bulkVars,
                 wikidata_software, crawlVars, left429, outcome, histVars>>

\* the loop of line 84 ends
CchDone ==
  /\ pc = "cch_loop"
  /\ si > Len(Keys(wikidata_software))
  /\ EndRun("complete")
  /\ UNCHANGED <<batch_size, sup, inst, ver, nodes, edges, mode, left429, expanded, histVars>>

CreateClassHierarchy ==
  \/ StartCreateClassHierarchy
  \/ CchCrawl
  \/ LegacyAddParentsTx
  \/ CchNext
  \/ CchDone

\* ---------------------------------------------------------- specifications
\* One call of _create_superclass_tree, from any class and with any visited
\* set, against any of the snapshots, on an empty store.
InitCrawl ==
  /\ sup \in {FixedSup \cup S : S \in SUBSET CandSup}
  /\ inst = {}
  /\ ver = 1
  /\ nodes = {}
  /\ edges = EmptyBag
  /\ pc = "crawl"
  /\ mode = "crawl"
  /\ current_software = {}
  /\ current_subclasses = {}
  /\ subclass_nodes = <<>>
  /\ software_nodes = <<>>
  /\ bi = 0
  /\ batch_size = BatchSize
  /\ in_flight = <<>>
  /\ committed = <<>>
  /\ wikidata_software = <<>>
  /\ si = 0
  /\ visited \in SUBSET {Uri(c) : c \in ClassIds}
  /\ \E c \in ClassIds :
       /\ stack = <<Frame([uri |-> Uri(c), label |-> Label(c)])>>
       /\ start = [nodes |-> {}, edges |-> EmptyBag, ver |-> 1, visited |-> visited,
                   class |-> Uri(c)]
  /\ attempts = <<>>
  /\ sleeps = 0
  /\ left429 = Max429
  /\ runs = 1
  /\ outcome = "running"
  /\ expanded = EmptyBag
  /\ prev = [mode |-> "none", outcome |-> "none", start |-> EmptyStart]

SpecCrawl == InitCrawl /\ [][Crawl]_vars

\* The process is scheduled until the call ends.
SpecCrawlFair == SpecCrawl /\ WF_vars(Crawl)

\* The lists of at most n elements of S.
SeqsUpTo(S, n) == UNION {[1..k -> S] : k \in 0..n}

\* update_database from line 126 on: merge_data is called for any list of
\* subclass rows, any list of the instance rows and any batch_size >= 1, on
\* an empty store.
InitMerge ==
  /\ sup = FixedSup \cup CandSup
  /\ inst = CandInst
  /\ ver = 1
  /\ nodes = {}
  /\ edges = EmptyBag
  /\ pc = "ud_merge_class"
  /\ mode = "bulk"
  /\ current_software = {}
  /\ current_subclasses = {}
  /\ subclass_nodes \in SeqsUpTo(SubclassRows, MaxData)
  /\ software_nodes \in Perms(InstanceRows)
  /\ bi = 0
  /\ batch_size \in 1..MaxBatchSize
  /\ in_flight = <<>>
  /\ committed = <<>>
  /\ wikidata_software = <<>>
  /\ si = 0
  /\ visited = {}
  /\ stack = <<>>
  /\ attempts = <<>>
  /\ sleeps = 0
  /\ left429 = Max429
  /\ runs = 1
  /\ outcome = "running"
  /\ expanded = EmptyBag
  /\ start = [nodes |-> {}, edges |-> EmptyBag, ver |-> 1, visited |-> {}, class |-> <<>>]
  /\ prev = [mode |-> "none", outcome |-> "none", start |-> EmptyStart]

SpecMerge == InitMerge /\ [][MergeData]_vars

\* Runs of either mode, one after the other, each complete, failed or killed.
Next == UpdateDatabase \/ AddNewSoftware \/ Crawl \/ Interrupt \/ Relabel

Spec == Init /\ [][Next]_vars

\* Runs of the legacy script, one after the other.
NextLegacy == CreateClassHierarchy \/ CrawlSteps \/ Interrupt \/ Relabel

SpecLegacy == Init /\ [][NextLegacy]_vars

\* ------------------------------------------------------------------ claims
UrisOf(ns, kind) == {n.uri : n \in {m \in ns : m.kind = kind}}

Range(f) == {f[k] : k \in DOMAIN f}

\* The current run is a bulk run that directly follows a completed bulk run
\* against the same snapshot.
SecondBulkRun ==
  /\ mode = "bulk"
  /\ prev.mode = "bulk"
  /\ prev.outcome = "complete"
  /\ prev.start.ver = start.ver

\* C1: a bulk run that follows a completed bulk run against the same snapshot
\* leaves the store as it found it, at every step and at its end; it does so
\* because it hands merge_data no row at all.
BulkIdempotent ==
  SecondBulkRun =>
    /\ nodes = start.nodes
    /\ edges = start.edges
    /\ subclass_nodes = <<>>
    /\ software_nodes = <<>>

\* C1's case: two bulk runs completed in succession, the first from a store
\* that was not empty, with software and classes mirrored.
BulkIdempotentWitness ==
  /\ SecondBulkRun
  /\ pc = "idle"
  /\ outcome = "complete"
  /\ prev.start.nodes # {}
  /\ UrisOf(nodes, "Software") # {}
  /\ edges # EmptyBag

\* The store an uninterrupted bulk run from store st0 ends with.
FullBulkRun(st0) ==
  LET classRows == {r \in SubclassRows : r.child_uri \notin UrisOf(st0.nodes, "Class")}
      softwareRows == {r \in InstanceRows : r.child_uri \notin UrisOf(st0.nodes, "Software")}
      s1 == MergeBatch(Store(st0.nodes, st0.edges), "Class", "SUBCLASS",
                       CHOOSE p \in Perms(classRows) : TRUE)
  IN  MergeBatch(s1, "Software", "INSTANCE", CHOOSE p \in Perms(softwareRows) : TRUE)

\* C2: after a bulk run that was interrupted and a bulk run that completed,
\* against the same snapshot, the store holds every node and every edge an
\* uninterrupted bulk run from the first run's initial store ends with.
CrashRecovery ==
  (/\ mode = "bulk"
   /\ pc = "idle"
   /\ outcome = "complete"
   /\ ver = start.ver
   /\ prev.mode = "bulk"
   /\ prev.outcome = "interrupted"
   /\ prev.start.ver = start.ver)
  => LET full == FullBulkRun(prev.start)
     IN  /\ full.nodes \subseteq nodes
         /\ BagToSet(full.edges) \subseteq BagToSet(edges)

\* C3: for each node label and each uri the store holds at most one node.
Uniqueness ==
  \A n, m \in nodes : (n.kind = m.kind /\ n.uri = m.uri) => n = m

\* C3's case: a recursive run after a bulk run, the remote's labels having
\* changed between two of the runs so far: the store holds Software nodes
\* and Class nodes written under either version of the labels.
UniquenessWitness ==
  /\ mode = "rec"
  /\ prev.mode = "bulk"
  /\ pc = "idle"
  /\ outcome = "complete"
  /\ \E n, m \in nodes : n.kind = "Software" /\ m.kind = "Software" /\ n.label[2] # m.label[2]
  /\ \E n, m \in nodes : n.kind = "Class" /\ m.kind = "Class" /\ n.label[2] # m.label[2]

\* C4: no step changes or removes the label of a stored node that has one.
FirstWriteWins == [][\A n \in nodes : n.label # NoLabel => n \in nodes']_vars

\* C5: within one run get_superclasses is called at most once per class.
AtMostOnceExpansion ==
  \A u \in BagToSet(expanded) : CopiesIn(u, expanded) <= 1

\* C6: every call of _create_superclass_tree ends, by returning or by
\* raising the remote's failure.
CrawlTerminates == <>(pc \in {"returned", "raised"})

\* C6's case: a call that started with a visited set that was not empty has
\* returned, on a snapshot where A and B are each other's superclass.
CrawlTerminatesWitness ==
  /\ pc = "returned"
  /\ start.visited # {}
  /\ {<<"QA", Root>>, <<"QA", "QB">>, <<"QB", "QA">>} \subseteq sup
  /\ Cardinality(BagToSet(expanded)) >= 3

\* The classes a crawl from class c reaches by superclass steps that stay
\* below the root.
RECURSIVE ReachFrom(_, _)
ReachFrom(S, n) ==
  IF n = 0 THEN S
  ELSE ReachFrom(S \cup {e[2] : e \in {f \in sup : f[1] \in S /\ f[2] \in Subtree}}, n - 1)

ExpectedEdges(c) ==
  {<<Uri(e[1]), Uri(e[2])>> :
     e \in {f \in sup : f[1] \in ReachFrom({c}, Cardinality(ClassIds)) /\ f[2] \in Subtree}}

\* C7: a crawl that started with an empty visited set (on an empty store)
\* and returned has stored exactly the direct-superclass edges of the classes
\* it can reach, once each, between Class nodes.
CrawlResult ==
  (pc = "returned" /\ start.visited = {}) =>
    /\ {<<e.src.uri, e.dst.uri>> : e \in BagToSet(edges)}
         = ExpectedEdges(LastSegment(start.class))
    /\ \A e \in BagToSet(edges) :
         /\ CopiesIn(e, edges) = 1
         /\ e.rel = "SUBCLASS"
         /\ e.src \in nodes /\ e.src.kind = "Class"
         /\ e.dst \in nodes /\ e.dst.kind = "Class"

\* C7's case: the cycle A -> B -> A crawled from A: exactly A -> B, B -> A
\* (and A's edge to the root, when the snapshot has it).
CrawlResultWitness ==
  /\ pc = "returned"
  /\ start.visited = {}
  /\ start.class = Uri("QA")
  /\ {<<e.src.uri, e.dst.uri>> : e \in BagToSet(edges)}
       = {<<Uri("QA"), Uri("QB")>>, <<Uri("QB"), Uri("QA")>>, <<Uri("QA"), Uri(Root)>>}

\* C8: when get_superclasses returns, the remote has answered 429 to all
\* requests but the last, there was one backoff wait per 429, every request
\* was the query for the class, and the result is the projection of the last
\* answer; and a 429 never makes get_superclasses raise.
RateLimitRecovery ==
  /\ (pc = "crawl" /\ Top.at = "tx") =>
       LET k == Len(attempts) - 1 IN
       /\ k >= 0
       /\ sleeps = k
       /\ \A j \in 1..k : attempts[j].answer.kind = "http" /\ attempts[j].answer.code = 429
       /\ attempts[k + 1].answer.kind = "ok"
       /\ \A j \in 1..(k + 1) : attempts[j].query = Query(Top.class_.uri)
       /\ Top.parents = Project(attempts[k + 1].answer.rows)
  /\ pc = "raised" => attempts[Len(attempts)].answer.code # 429

\* C8's case: two 429 answers, then the superclasses.
RateLimitRecoveryWitness ==
  /\ pc = "crawl"
  /\ Top.at = "tx"
  /\ sleeps = 2
  /\ Len(attempts) = 3
  /\ Top.parents # <<>>

\* C9: no run ends with the error of an HTTP 429 answer.
RateLimitNeverFatal == outcome # "error429"

\* C10: in a bulk run the rows handed to merge_data for a label are the
\* remote's rows whose child uri is not a uri of that label in the store the
\* run started from, once each; and every node and edge the run has written
\* comes from a row it handed over.
SetDifference ==
  (mode = "bulk" /\ pc \in {"ud_merge_class", "ud_merge_class_sync",
                            "ud_merge_software", "ud_merge_software_sync"}) =>
    /\ Range(subclass_nodes)
         = {r \in SubclassRows : r.child_uri \notin UrisOf(start.nodes, "Class")}
    /\ Range(software_nodes)
         = {r \in InstanceRows : r.child_uri \notin UrisOf(start.nodes, "Software")}
    /\ Len(subclass_nodes) = Cardinality(Range(subclass_nodes))
    /\ Len(software_nodes) = Cardinality(Range(software_nodes))
    /\ \A e \in BagToSet(edges) \ BagToSet(start.edges) :
         \/ /\ e.rel = "SUBCLASS"
            /\ \E r \in Range(subclass_nodes) :
                 e.src.uri = r.child_uri /\ e.dst.uri = r.parent_uri
         \/ /\ e.rel = "INSTANCE"
            /\ \E r \in Range(software_nodes) :
                 e.src.uri = r.child_uri /\ e.dst.uri = r.parent_uri
    /\ \A n \in nodes \ start.nodes :
         \/ /\ n.kind = "Class"
            /\ \E r \in Range(subclass_nodes) \cup Range(software_nodes) :
                 n.uri \in {r.child_uri, r.parent_uri}
         \/ /\ n.kind = "Software"
            /\ \E r \in Range(software_nodes) : n.uri = r.child_uri

\* C10's case: Qs1 is known, the remote lists Qs1 and Qs2, and the run has
\* merged its last batch: only Qs2's row was handed over.
SetDifferenceWitness ==
  /\ mode = "bulk"
  /\ pc = "ud_merge_software"
  /\ bi = NumBatches(software_nodes, batch_size)
  /\ current_software = {Uri("Qs1")}
  /\ {r.child_uri : r \in InstanceRows} = {Uri("Qs1"), Uri("Qs2")}
  /\ {r.child_uri : r \in Range(software_nodes)} = {Uri("Qs2")}
  /\ UrisOf(nodes, "Software") = {Uri("Qs1"), Uri("Qs2")}

\* The uris of the stored classes from which a stored class in S is reached
\* along SUBCLASS relationships, S included.
RECURSIVE ReachingIn(_, _, _)
ReachingIn(es, S, n) ==
  IF n = 0 THEN S
  ELSE ReachingIn(es, S \cup {e.src.uri : e \in {f \in BagToSet(es) :
                                 f.rel = "SUBCLASS" /\ f.dst.uri \in S}}, n - 1)

RootReaching(ns, es) ==
  ReachingIn(es, {n.uri : n \in Match(ns, "Class", Uri(Root))}, Cardinality(ClassIds))

\* C11: after update_database has completed, every Software node has an
\* INSTANCE relationship to a Class node from which the root is reached
\* along SUBCLASS relationships, whatever store the run started from.
OrphanFreedom ==
  (mode = "bulk" /\ pc = "idle" /\ outcome = "complete")
  => \A n \in nodes :
       n.kind = "Software"
       => \E e \in BagToSet(edges) :
            /\ e.rel = "INSTANCE"
            /\ e.src = n
            /\ e.dst.kind = "Class"
            /\ e.dst.uri \in RootReaching(nodes, edges)


\* The INSTANCE relationships of the store es from a node with uri s to a node
\* with uri t, counted with their copies.
InstanceEdges(es, s, t) ==
  LET E == {e \in BagToSet(es) : e.rel = "INSTANCE" /\ e.src.uri = s /\ e.dst.uri = t}
  IN  BagCardinality([e \in E |-> CopiesIn(e, es)])

\* C12: after add_new_software has completed, every remote row (s, t) whose s
\* was not stored when the run started has a Software node for s with exactly
\* one INSTANCE relationship to the Class node for t, also when t has no
\* superclass below the root (t the root itself).
RecCompleteness ==
  (mode = "rec" /\ pc = "idle" /\ outcome = "complete")
  => \A r \in InstanceRows :
       r.child_uri \notin UrisOf(start.nodes, "Software")
       => /\ Match(nodes, "Software", r.child_uri) # {}
          /\ Match(nodes, "Class", r.parent_uri) # {}
          /\ InstanceEdges(edges, r.child_uri, r.parent_uri) = 1

\* C13: a run of add_new_software that follows a completed run of
\* add_new_software, on the same snapshot, creates no node and no relationship.
RecIdempotent ==
  (/\ mode = "rec"
   /\ prev.mode = "rec"
   /\ prev.outcome = "complete"
   /\ prev.start.ver = start.ver
   /\ ver = start.ver)
  => /\ nodes = start.nodes
     /\ edges = start.edges

\* The batches of the merge_data call for `label` the store has acknowledged.
Batches(label) ==
  LET c == SelectSeq(committed, LAMBDA x : x.label = label)
  IN  [k \in 1..Len(c) |-> c[k].batch]

RECURSIVE Concat(_)
Concat(ss) == IF ss = <<>> THEN <<>> ELSE Head(ss) \o Concat(Tail(ss))

CeilDiv(n, b) == IF n % b = 0 THEN n \div b ELSE (n \div b) + 1

\* batches is data cut into consecutive slices of b elements, the last one
\* holding what is left.
Partition(batches, data, b) ==
  LET n == Len(data)
      m == Len(batches)
  IN  /\ m = CeilDiv(n, b)
      /\ \A k \in 1..m :
           batches[k] = SubSeq(data, (k - 1) * b + 1, (k - 1) * b + Len(batches[k]))
      /\ \A k \in 1..(m - 1) : Len(batches[k]) = b
      /\ m > 0 => Len(batches[m]) = n - b * (m - 1)
      /\ Concat(batches) = data

\* C14: when merge_data returns, the batches it committed are ceil(n/b)
\* consecutive slices of its input, in input order, each of b records but
\* the last, which holds the rest; together they are the input (none for an
\* empty input).
BatchPartition ==
  [][/\ (pc = "ud_merge_class" /\ pc' = "ud_merge_software")
          => Partition(Batches("Class"), subclass_nodes, batch_size)
     /\ (pc = "ud_merge_software" /\ pc' = "idle" /\ outcome' = "complete")
          => Partition(Batches("Software"), software_nodes, batch_size)]_vars

\* C14's case: a list of 5 records and batch_size 2 were committed as three
\* batches (the claim's 1200 and 500, scaled).
BatchPartitionWitness ==
  /\ pc = "ud_merge_software"
  /\ Len(subclass_nodes) = 5
  /\ batch_size = 2
  /\ Len(Batches("Class")) = 3
  /\ Len(Batches("Class")[3]) = 1

\* The store holds what the rows of a statement merge.
Applied(c) ==
  \A k \in 1..Len(c.batch) :
    \E e \in BagToSet(edges) :
      /\ e.rel = c.relationship
      /\ e.src \in Match(nodes, c.label, c.batch[k].child_uri)
      /\ e.dst \in Match(nodes, "Class", c.batch[k].parent_uri)

\* C15: at most one batch is in flight; when a batch is in flight every
\* batch before it has been acknowledged, and the store holds their effects.
NoOverlap ==
  /\ Len(in_flight) <= 1
  /\ in_flight # <<>>
       => /\ Len(Batches(in_flight[1].label)) = bi
          /\ \A k \in 1..Len(committed) : Applied(committed[k])
          /\ \A k \in 1..bi :
               Batches(in_flight[1].label)[k]
                 = SubSeq(IF in_flight[1].label = "Class" THEN subclass_nodes
                          ELSE software_nodes,
                          (k - 1) * batch_size + 1, k * batch_size)

\* C15's case: the third batch of a call is in flight, after two were acknowledged.
NoOverlapWitness ==
  /\ pc = "ud_merge_class_sync"
  /\ Len(in_flight) = 1
  /\ bi = 2
  /\ Len(committed) = 2

\* An answer get_superclasses does not retry: a body that is not JSON, or an
\* HTTP error other than 429.
NonRetryable(a) == a.kind = "decode" \/ (a.kind = "http" /\ a.code # 429)

\* C16: a non-retryable answer to a superclass query is the last request of
\* the call: get_superclasses has raised it, with no backoff wait after it
\* (the waits are those of the 429 answers before it).
SurfacedAtOnce ==
  \A j \in 1..Len(attempts) :
    NonRetryable(attempts[j].answer)
    => /\ j = Len(attempts)
       /\ pc = "raised"
       /\ outcome = "errorfail"
       /\ sleeps = j - 1
       /\ \A i \in 1..(j - 1) : attempts[i].answer.code = 429

\* C16's case: the first answer was not JSON and the call has raised.
SurfacedAtOnceWitness ==
  /\ pc = "raised"
  /\ Len(attempts) = 1
  /\ attempts[1].answer.kind = "decode"
  /\ sleeps = 0

\* C17: in recursive mode a non-retryable failure of a crawl ends that crawl
\* only: the run goes on with the next row.
FailureIsolation ==
  [][(mode = "rec" /\ pc = "crawl" /\ outcome' = "errorfail")
       => (pc' = "ans_loop" /\ si' = si + 1 /\ wikidata_software' = wikidata_software)]_vars

\* The uri is the start class of the crawl or a class below the root.
InSubtreeOrStart(uri) == uri = start.class \/ LastSegment(uri) \in Subtree

\* C18: the crawler stores as a superclass, expands after its start class,
\* and asks the remote about, only classes below the root (the root
\* included); a superclass of the root outside the subtree is never a node.
StaysInSubtree ==
  /\ \A e \in BagToSet(edges) : e.rel = "SUBCLASS" => LastSegment(e.dst.uri) \in Subtree
  /\ \A u \in BagToSet(expanded) : InSubtreeOrStart(u)
  /\ \A j \in 1..Len(attempts) : InSubtreeOrStart(Uri(attempts[j].query.of))
  /\ \A k \in 1..Len(stack) : InSubtreeOrStart(stack[k].class_.uri)
  /\ \A n \in nodes : InSubtreeOrStart(n.uri)
  /\ Match(nodes, "Class", Uri("QX")) = {}

\* C18's case: a crawl from QA has expanded the root, whose superclass QX is
\* outside the subtree, and has returned.
StaysInSubtreeWitness ==
  /\ pc = "returned"
  /\ start.class = Uri("QA")
  /\ BagIn(Uri(Root), expanded)
  /\ <<Root, "QX">> \in sup
  /\ Match(nodes, "Class", Uri(Root)) # {}

\* The direct superclasses the remote gives the class with this uri, below the root.
DirectSupers(uri) == {Uri(f[2]) : f \in {g \in sup : Uri(g[1]) = uri /\ g[2] \in Subtree}}

\* Every remote direct-superclass edge of the class (within the root's
\* subtree) is a SUBCLASS relationship of the store.
CommittedClass(uri) ==
  \A p \in DirectSupers(uri) :
    \E e \in BagToSet(edges) : e.rel = "SUBCLASS" /\ e.src.uri = uri /\ e.dst.uri = p

\* visited loses no element while a run's crawls go on.
VisitedGrows ==
  (pc \in {"crawl", "ans_loop", "ans_merge"} /\ pc' # "idle") => visited \subseteq visited'

\* Where an invocation of the crawler returns, and after it has returned,
\* every visited class has its edges in the store.
VisitedAtReturn ==
  (pc \in {"ans_loop", "ans_merge"} \/ (pc = "crawl" /\ Top.at = "loop"))
  => \A u \in visited : CommittedClass(u)

\* An invocation that has gone on to expand a superclass of its class has
\* committed the edges of its class.
CommittedBeforeRecursing ==
  pc = "crawl" => \A k \in 1..(Len(stack) - 1) : CommittedClass(stack[k].class_.uri)

\* No superclass of a class has been expanded in this run while the edges of
\* the class are still to be committed by the invocation that handles it.
CommittedBeforeAnyExpansion ==
  pc = "crawl"
  => \A k \in 1..Len(stack) :
       (stack[k].at \in {"query", "tx"} /\ ~CommittedClass(stack[k].class_.uri))
       => \A p \in DirectSupers(stack[k].class_.uri) : ~BagIn(p, expanded)

\* (The state parts below are read in the state a step leaves: every state of
\* a run has a step, the process can be killed in it.)
\* C19, as stated: visited only grows during a run, at every return of the
\* crawler every visited class has its edges in the store, and the edges of a
\* class are committed before any of its superclasses is expanded.
VisitedCommittedGlobally ==
  [][VisitedGrows /\ VisitedAtReturn /\ CommittedBeforeAnyExpansion]_vars

\* C19, amended: visited only grows during a run, at every return of the
\* crawler every visited class has its edges in the store, and an invocation
\* commits the edges of its class before it expands any of its superclasses.
VisitedCommitted ==
  [][VisitedGrows /\ VisitedAtReturn /\ CommittedBeforeRecursing]_vars

\* C19's case: in a recursive-mode run an inner invocation is about to
\* return, with two classes visited, on the snapshot where QA and QB are each
\* other's superclass.
VisitedCommittedWitness ==
  /\ mode = "rec"
  /\ pc = "crawl"
  /\ Len(stack) >= 2
  /\ Top.at = "loop"
  /\ Top.i > Len(Top.parents)
  /\ Cardinality(visited) >= 2
  /\ {<<"QA", "QB">>, <<"QB", "QA">>} \subseteq sup

====
